---- MODULE Spec2Model ----
(***************************************************************************)
(* Model of python-version/app.py of address-region-checker: the discovery *)
(* of the shapefiles, the per-address region lookup                        *)
(* (check_address_in_region) and the batch loop (process_addresses) with   *)
(* the summary the page shows afterwards.                                  *)
(*                                                                         *)
(* Strings are sequences of one-character strings, so that the prefix      *)
(* derivation ('_'.join(...).replace('.shp', '')) and the column names     *)
(* f"{prefix}_{col}" are computed, not assumed.  A geometry is abstracted  *)
(* to the answer of point.within(region.geometry) for the point the        *)
(* geocoder returns; to_crs changes the CRS tag and leaves that answer     *)
(* alone (every dataset is taken to carry a CRS).                          *)
(***************************************************************************)
EXTENDS Integers, Sequences, FiniteSets, TLC

VARIABLES
    files,            \* the .shp files under shape_files/: path -> GeoDataFrame
    uploaded_csv,     \* the table pd.read_csv yields for the uploaded file
    pc,               \* position in the page script
    SHAPEFILE_PATHS,  \* result of find_shapefiles()
    regions_list,     \* list of (file_path, GeoDataFrame)
    df,               \* the table process_addresses works on
    idx,              \* number of rows the loop has completed
    geo_log,          \* per completed row: what the geocoder did
    region_log,       \* per completed row: what check_address_in_region returned
    result_df,        \* st.session_state.result_df
    metrics           \* the three st.metric values

vars == <<files, uploaded_csv, pc, SHAPEFILE_PATHS, regions_list, df, idx,
          geo_log, region_log, result_df, metrics>>

----------------------------------------------------------------------------
(* Bounds of the model *)

MaxDatasets == 2
MaxRegions == 3
MaxRows == 2

----------------------------------------------------------------------------
(* Strings *)

Shp == <<".", "s", "h", "p">>
Underscore == <<"_">>
Slash == <<"/">>
ShapeFilesDir == <<"s", "h", "a", "p", "e", "_", "f", "i", "l", "e", "s">>
GeometryCol == <<"g", "e", "o", "m", "e", "t", "r", "y">>
AddressCol == <<"a", "d", "d", "r", "e", "s", "s">>
InRegionCol == <<"i", "n", "_", "r", "e", "g", "i", "o", "n">>
NoteCol == <<"n", "o", "t", "e">>
Cwd == <<"/", "a", "p", "p">>

\* code points of the characters the model uses, for sorted()
Ord(ch) ==
    CASE ch = "." -> 46
      [] ch = "/" -> 47
      [] ch = "_" -> 95
      [] ch = "a" -> 97
      [] ch = "b" -> 98
      [] ch = "c" -> 99
      [] ch = "d" -> 100
      [] ch = "e" -> 101
      [] ch = "f" -> 102
      [] ch = "g" -> 103
      [] ch = "h" -> 104
      [] ch = "i" -> 105
      [] ch = "l" -> 108
      [] ch = "n" -> 110
      [] ch = "o" -> 111
      [] ch = "p" -> 112
      [] ch = "r" -> 114
      [] ch = "s" -> 115
      [] ch = "t" -> 116
      [] OTHER -> 0

RECURSIVE StrLess(_, _)
\* Python's s < t on str
StrLess(s, t) ==
    IF t = <<>> THEN FALSE
    ELSE IF s = <<>> THEN TRUE
    ELSE IF Ord(Head(s)) # Ord(Head(t)) THEN Ord(Head(s)) < Ord(Head(t))
    ELSE StrLess(Tail(s), Tail(t))

StartsWith(s, p) == Len(s) >= Len(p) /\ SubSeq(s, 1, Len(p)) = p

EndsWith(s, p) == Len(s) >= Len(p) /\ SubSeq(s, Len(s) - Len(p) + 1, Len(s)) = p

RECURSIVE Replace(_, _)
\* str.replace(old, ''): every non-overlapping occurrence, left to right
Replace(s, old) ==
    IF s = <<>> THEN <<>>
    ELSE IF StartsWith(s, old)
         THEN Replace(SubSeq(s, Len(old) + 1, Len(s)), old)
         ELSE <<Head(s)>> \o Replace(Tail(s), old)

RECURSIVE Join(_, _)
\* sep.join(parts)
Join(sep, parts) ==
    IF parts = <<>> THEN <<>>
    ELSE IF Len(parts) = 1 THEN parts[1]
    ELSE parts[1] \o sep \o Join(sep, Tail(parts))

RECURSIVE SplitSlash(_, _)
\* the '/'-separated components of s, cur being the component under way
SplitSlash(s, cur) ==
    IF s = <<>> THEN (IF cur = <<>> THEN <<>> ELSE <<cur>>)
    ELSE IF Head(s) = "/"
         THEN (IF cur = <<>> THEN <<>> ELSE <<cur>>) \o SplitSlash(Tail(s), <<>>)
         ELSE SplitSlash(Tail(s), Append(cur, Head(s)))

\* pathlib.Path(file_path).parts of an absolute POSIX path
Parts(file_path) ==
    IF StartsWith(file_path, Slash)
    THEN <<Slash>> \o SplitSlash(file_path, <<>>)
    ELSE SplitSlash(file_path, <<>>)

\* parts.index(x), 1-based; 0 stands for the ValueError of a missing element
Index(parts, x) ==
    IF \E i \in 1..Len(parts) : parts[i] = x
    THEN CHOOSE i \in 1..Len(parts) :
            parts[i] = x /\ \A j \in 1..(i - 1) : parts[j] # x
    ELSE 0

----------------------------------------------------------------------------
(* Cell values.  Every value is a 4-tuple <<kind, source, row, column>>, so  *)
(* that any two cells can be compared and every attribute value a dataset    *)
(* holds is recognisable as that region's own.                               *)

Null == <<"null", "", 0, <<>>>>
True == <<"bool", "true", 0, <<>>>>
False == <<"bool", "false", 0, <<>>>>
CsvValue(i, col) == <<"csv", "", i, col>>
AttrValue(src, i, col) == <<"attr", src, i, col>>
Polygon(src, i, within) == <<IF within THEN "polygon_in" ELSE "polygon_out", src, i, <<>>>>

\* the point the geocoder returns for an address it finds
ThePoint == <<"point", "", 0, <<>>>>

\* point.within(region.geometry)
Within(point, geometry) == point = ThePoint /\ geometry[1] = "polygon_in"

Range(s) == {s[i] : i \in DOMAIN s}

----------------------------------------------------------------------------
(* The shapefiles that may lie under shape_files/ *)

Crs4326 == "EPSG:4326"
CrsOther == "EPSG:26986"

\* name |-> path below shape_files/, CRS, attribute columns, null attributes
Catalogue ==
    [a       |-> [rel |-> <<"a">> \o Shp,
                  crs |-> Crs4326,
                  attrs |-> << <<"b", "_", "c">>, <<"d">> >>,
                  nulls |-> FALSE],
     a_dir_b |-> [rel |-> <<"a", "/", "b">> \o Shp,
                  crs |-> CrsOther,
                  attrs |-> << <<"c">> >>,
                  nulls |-> FALSE],
     a_b     |-> [rel |-> <<"a", "_", "b">> \o Shp,
                  crs |-> Crs4326,
                  attrs |-> << >>,
                  nulls |-> FALSE],
     in      |-> [rel |-> <<"i", "n">> \o Shp,
                  crs |-> CrsOther,
                  attrs |-> << <<"r", "e", "g", "i", "o", "n">> >>,
                  nulls |-> TRUE]]

CatalogueNames == DOMAIN Catalogue

\* os.path.abspath("shape_files")
AbsDirectory == Cwd \o Slash \o ShapeFilesDir

PathOf(name) == AbsDirectory \o Slash \o Catalogue[name].rel

\* the GeoDataFrame gpd.read_file yields: the attribute columns, then geometry
GeoDataFrame(name, withins) ==
    LET e == Catalogue[name]
        cols == e.attrs \o <<GeometryCol>>
    IN [crs |-> e.crs,
        columns |-> cols,
        rows |-> [i \in 1..Len(withins) |->
                    [c \in Range(cols) |->
                        IF c = GeometryCol THEN Polygon(name, i, withins[i])
                        ELSE IF e.nulls THEN Null
                        ELSE AttrValue(name, i, c)]]]

WithinSeqs == UNION {[1..k -> BOOLEAN] : k \in 0..MaxRegions}

\* regions.to_crs(crs): a reprojected copy; containment is unchanged
ToCrs(regions, crs) == [regions EXCEPT !.crs = crs]

----------------------------------------------------------------------------
(* The uploaded table *)

CollidingCol == <<"a", "_", "b", "_", "c">>

CsvHeaders ==
    { <<AddressCol, NoteCol>>,
      <<AddressCol, NoteCol, InRegionCol, CollidingCol>>,
      <<NoteCol>> }

\* pd.read_csv: a table with a RangeIndex, rows in file order
ReadCsv(header, n) ==
    [columns |-> header,
     rows |-> [i \in 1..n |-> [c \in Range(header) |-> CsvValue(i, c)]]]

----------------------------------------------------------------------------
(* pandas *)

\* df[name] = value
SetColumn(d, name, value) ==
    [columns |-> IF name \in Range(d.columns) THEN d.columns
                 ELSE Append(d.columns, name),
     rows |-> [i \in 1..Len(d.rows) |->
                 [c \in Range(d.columns) \cup {name} |->
                     IF c = name THEN value ELSE d.rows[i][c]]]]

\* df.at with the label off by one: the write lands on the next row and, past
\* the last row, enlarges the table
DfAtOffByOne(d, label, col, value) ==
    LET target == label + 1
        cols == IF col \in Range(d.columns) THEN d.columns
                ELSE Append(d.columns, col)
        n == IF target > Len(d.rows) THEN target ELSE Len(d.rows)
        old(i, c) == IF i <= Len(d.rows) /\ c \in Range(d.columns)
                     THEN d.rows[i][c] ELSE Null
    IN [columns |-> cols,
        rows |-> [i \in 1..n |->
                    [c \in Range(cols) |->
                        IF i = target /\ c = col THEN value ELSE old(i, c)]]]

\* df.at[label, col] = value on a RangeIndex; a missing label or column
\* enlarges the table, the new cells being null
DfAt(d, label, col, value) ==
    LET cols == IF col \in Range(d.columns) THEN d.columns
                ELSE Append(d.columns, col)
        n == IF label > Len(d.rows) THEN label ELSE Len(d.rows)
        old(i, c) == IF i <= Len(d.rows) /\ c \in Range(d.columns)
                     THEN d.rows[i][c] ELSE Null
    IN [columns |-> cols,
        rows |-> [i \in 1..n |->
                    [c \in Range(cols) |->
                        IF i = label /\ c = col THEN value ELSE old(i, c)]]]

\* dict[key] = value
DictSet(dict, key, value) ==
    [k \in DOMAIN dict \cup {key} |-> IF k = key THEN value ELSE dict[k]]

EmptyDict == [k \in {} |-> Null]

----------------------------------------------------------------------------
(* find_shapefiles *)

RECURSIVE Sorted(_)
\* sorted(list of str)
Sorted(S) ==
    IF S = {} THEN <<>>
    ELSE LET m == CHOOSE x \in S : \A y \in S \ {x} : StrLess(x, y)
         IN <<m>> \o Sorted(S \ {m})

\* pathlib.Path(directory).rglob("*.shp"), then sorted
FindShapefiles(fs) == Sorted({f.path : f \in {g \in fs : EndsWith(g.path, Shp)}})

\* gpd.read_file(path)
ReadFile(fs, path) == (CHOOSE f \in fs : f.path = path).gdf

----------------------------------------------------------------------------
(* The namespace prefix and the column names *)

\* '_'.join(parts[shape_files_idx + 1:]).replace('.shp', '')
Prefix(file_path) ==
    LET parts == Parts(file_path)
        shape_files_idx == Index(parts, ShapeFilesDir)
    IN Replace(Join(Underscore, SubSeq(parts, shape_files_idx + 1, Len(parts))), Shp)

\* f"{prefix}_{col}"
ColumnName(prefix, col) == prefix \o Underscore \o col

----------------------------------------------------------------------------
(* get_coordinates and check_address_in_region *)

GeocodeOutcomes == {"found", "not_found", "error"}

\* get_coordinates: a Point, or None (Null) when the geocoder finds nothing
\* or raises
GetCoordinates(outcome) ==
    IF outcome = "error" THEN Null
    ELSE IF outcome = "found" THEN ThePoint
    ELSE Null

RECURSIVE MergeRegion(_, _, _, _)
\* for key, value in region_dict.items(): if key != 'geometry': ...
MergeRegion(combined_data, prefix, region, keys) ==
    IF keys = <<>> THEN combined_data
    ELSE LET key == Head(keys)
             next == IF key # GeometryCol
                     THEN DictSet(combined_data, ColumnName(prefix, key), region[key])
                     ELSE combined_data
         IN MergeRegion(next, prefix, region, Tail(keys))

RECURSIVE ScanRegionsFirstMatch(_, _, _, _, _)
\* the scan that returns at the first containing region, as the single-dataset
\* check_address_in_region of check_address_in_region.py does
ScanRegionsFirstMatch(combined_data, point, prefix, regions, i) ==
    IF i > Len(regions.rows) THEN combined_data
    ELSE IF Within(point, regions.rows[i][GeometryCol])
         THEN MergeRegion(combined_data, prefix, regions.rows[i], regions.columns)
         ELSE ScanRegionsFirstMatch(combined_data, point, prefix, regions, i + 1)

RECURSIVE ScanRegions(_, _, _, _, _)
\* for idx, region in regions.iterrows(): if point.within(region.geometry): ...
ScanRegions(combined_data, point, prefix, regions, i) ==
    IF i > Len(regions.rows) THEN combined_data
    ELSE LET region == regions.rows[i]
             next == IF Within(point, region[GeometryCol])
                     THEN MergeRegion(combined_data, prefix, region, regions.columns)
                     ELSE combined_data
         IN ScanRegions(next, point, prefix, regions, i + 1)

RECURSIVE ScanDatasets(_, _, _, _)
\* for file_path, regions in regions_list: ...
ScanDatasets(combined_data, point, rl, j) ==
    IF j > Len(rl) THEN combined_data
    ELSE LET regions == IF rl[j].regions.crs # Crs4326
                        THEN ToCrs(rl[j].regions, Crs4326)
                        ELSE rl[j].regions
             prefix == Prefix(rl[j].file_path)
         IN ScanDatasets(ScanRegions(combined_data, point, prefix, regions, 1),
                         point, rl, j + 1)

\* Python's None for a dict-valued result
NoneResult == [none |-> TRUE, data |-> EmptyDict]

\* check_address_in_region, given what the geocoder does for the address
CheckAddressInRegion(outcome, rl) ==
    LET point == GetCoordinates(outcome)
    IN IF point = Null THEN NoneResult
       ELSE LET combined_data == ScanDatasets(EmptyDict, point, rl, 1)
            IN IF DOMAIN combined_data # {}
               THEN [none |-> FALSE, data |-> combined_data]
               ELSE NoneResult

\* the truth value of region_data in `if region_data:`
Truthy(region_data) == ~region_data.none /\ DOMAIN region_data.data # {}

----------------------------------------------------------------------------
(* process_addresses *)

RECURSIVE CreateColumns(_, _, _)
\* for col in region_columns: df[f"{prefix}_{col}"] = None
CreateColumns(d, prefix, cols) ==
    IF cols = <<>> THEN d
    ELSE CreateColumns(IF Head(cols) # GeometryCol
                       THEN SetColumn(d, ColumnName(prefix, Head(cols)), Null)
                       ELSE d,
                       prefix, Tail(cols))

RECURSIVE CreateAllColumns(_, _, _)
\* for file_path, regions in regions_list: ...
CreateAllColumns(d, rl, j) ==
    IF j > Len(rl) THEN d
    ELSE CreateAllColumns(CreateColumns(d, Prefix(rl[j].file_path), rl[j].regions.columns),
                          rl, j + 1)

RECURSIVE AllColumns(_, _)
\* all_columns, as a set
AllColumns(rl, j) ==
    IF j > Len(rl) THEN {}
    ELSE {ColumnName(Prefix(rl[j].file_path), c) :
             c \in Range(rl[j].regions.columns) \ {GeometryCol}}
         \cup AllColumns(rl, j + 1)

RECURSIVE WriteItems(_, _, _, _)
\* for col, value in region_data.items(): df.at[idx, col] = value
WriteItems(d, label, data, keys) ==
    IF keys = {} THEN d
    ELSE LET col == CHOOSE k \in keys : TRUE
         IN WriteItems(DfAt(d, label, col, data[col]), label, data, keys \ {col})

\* the loop body with the flag set before the test of region_data
ProcessOneRowFlagFirst(d, label, region_data) ==
    LET flagged == DfAt(d, label, InRegionCol, True)
    IN IF Truthy(region_data)
       THEN WriteItems(flagged, label, region_data.data, DOMAIN region_data.data)
       ELSE flagged

\* the body of the loop for the row with label `label`
ProcessOneRow(d, label, region_data) ==
    IF Truthy(region_data)
    THEN WriteItems(DfAt(d, label, InRegionCol, True), label,
                    region_data.data, DOMAIN region_data.data)
    ELSE d

----------------------------------------------------------------------------
(* The summary *)

\* int(result_df['in_region'].sum())
SumInRegion(d) == Cardinality({i \in 1..Len(d.rows) : d.rows[i][InRegionCol] = True})

Metrics(d) ==
    [total |-> Len(d.rows),
     found |-> SumInRegion(d),
     not_found |-> Len(d.rows) - SumInRegion(d)]

----------------------------------------------------------------------------
(* The page script as a state machine *)

NoTable == [columns |-> <<>>, rows |-> <<>>]
NoMetrics == [total |-> -1, found |-> -1, not_found |-> -1]

RECURSIVE TotalRegions(_, _)
TotalRegions(w, S) ==
    IF S = {} THEN 0
    ELSE LET n == CHOOSE x \in S : TRUE
         IN Len(w[n]) + TotalRegions(w, S \ {n})

\* at most MaxDatasets shapefiles, holding at most MaxRegions regions together
FileSystems ==
    UNION {{ {[path |-> PathOf(n), gdf |-> GeoDataFrame(n, w[n])] : n \in S} :
               w \in {v \in [S -> WithinSeqs] : TotalRegions(v, S) <= MaxRegions}} :
           S \in {T \in SUBSET CatalogueNames : Cardinality(T) <= MaxDatasets}}

Init ==
    /\ files \in FileSystems
    /\ uploaded_csv \in [header : CsvHeaders, n : 0..MaxRows]
    /\ pc = "start"
    /\ SHAPEFILE_PATHS = <<>>
    /\ regions_list = <<>>
    /\ df = NoTable
    /\ idx = 0
    /\ geo_log = <<>>
    /\ region_log = <<>>
    /\ result_df = NoTable
    /\ metrics = NoMetrics

\* SHAPEFILE_PATHS = find_shapefiles()
FindShapefilesStep ==
    /\ pc = "start"
    /\ SHAPEFILE_PATHS' = FindShapefiles(files)
    /\ pc' = "found"
    /\ UNCHANGED <<files, uploaded_csv, regions_list, df, idx, geo_log,
                   region_log, result_df, metrics>>

\* df = pd.read_csv(uploaded_csv) without an 'address' column
RejectCsv ==
    /\ pc = "found"
    /\ AddressCol \notin Range(uploaded_csv.header)
    /\ df' = ReadCsv(uploaded_csv.header, uploaded_csv.n)
    /\ pc' = "rejected"
    /\ UNCHANGED <<files, uploaded_csv, SHAPEFILE_PATHS, regions_list, idx,
                   geo_log, region_log, result_df, metrics>>

\* df = pd.read_csv(uploaded_csv) with an 'address' column
AcceptCsv ==
    /\ pc = "found"
    /\ AddressCol \in Range(uploaded_csv.header)
    /\ df' = ReadCsv(uploaded_csv.header, uploaded_csv.n)
    /\ pc' = "uploaded"
    /\ UNCHANGED <<files, uploaded_csv, SHAPEFILE_PATHS, regions_list, idx,
                   geo_log, region_log, result_df, metrics>>

\* regions_list.append((shapefile_path, gpd.read_file(shapefile_path)))
ReadShapefiles ==
    /\ pc = "uploaded"
    /\ regions_list' = [j \in 1..Len(SHAPEFILE_PATHS) |->
                          [file_path |-> SHAPEFILE_PATHS[j],
                           regions |-> ReadFile(files, SHAPEFILE_PATHS[j])]]
    /\ pc' = "loaded"
    /\ UNCHANGED <<files, uploaded_csv, SHAPEFILE_PATHS, df, idx, geo_log,
                   region_log, result_df, metrics>>

\* the button is pressed: process_addresses up to the loop
StartProcessing ==
    /\ pc = "loaded"
    /\ df' = SetColumn(CreateAllColumns(df, regions_list, 1), InRegionCol, False)
    /\ idx' = 0
    /\ pc' = "loop"
    /\ UNCHANGED <<files, uploaded_csv, SHAPEFILE_PATHS, regions_list, geo_log,
                   region_log, result_df, metrics>>

\* one iteration of the loop; the geocoder answers as it will
ProcessRow ==
    /\ pc = "loop"
    /\ idx < Len(df.rows)
    /\ \E outcome \in GeocodeOutcomes :
          LET address == df.rows[idx + 1][AddressCol]
              region_data == CheckAddressInRegion(outcome, regions_list)
          IN /\ geo_log' = Append(geo_log, [address |-> address, outcome |-> outcome])
             /\ region_log' = Append(region_log, region_data)
             /\ df' = ProcessOneRow(df, idx + 1, region_data)
    /\ idx' = idx + 1
    /\ UNCHANGED <<files, uploaded_csv, pc, SHAPEFILE_PATHS, regions_list,
                   result_df, metrics>>

\* the loop is exhausted: return df; st.session_state.result_df = result_df
FinishProcessing ==
    /\ pc = "loop"
    /\ idx >= Len(df.rows)
    /\ result_df' = df
    /\ pc' = "returned"
    /\ UNCHANGED <<files, uploaded_csv, SHAPEFILE_PATHS, regions_list, df, idx,
                   geo_log, region_log, metrics>>

\* the three st.metric lines
ShowSummary ==
    /\ pc = "returned"
    /\ metrics' = Metrics(result_df)
    /\ pc' = "done"
    /\ UNCHANGED <<files, uploaded_csv, SHAPEFILE_PATHS, regions_list, df, idx,
                   geo_log, region_log, result_df>>

Next ==
    \/ FindShapefilesStep
    \/ RejectCsv
    \/ AcceptCsv
    \/ ReadShapefiles
    \/ StartProcessing
    \/ ProcessRow
    \/ FinishProcessing
    \/ ShowSummary

Spec == Init /\ [][Next]_vars

----------------------------------------------------------------------------
(* Vocabulary of the properties *)

\* process_addresses has returned
Finished == pc \in {"returned", "done"}

\* process_addresses has been entered
Processing == pc \in {"loop", "returned", "done"}

\* the rows the loop has completed
Completed == 1..Len(region_log)

\* the regions of a dataset that contain the geocoded point
Containing(regions) ==
    {r \in 1..Len(regions.rows) : Within(ThePoint, regions.rows[r][GeometryCol])}

\* the last of them in the dataset's sequence
LastContaining(regions) ==
    CHOOSE r \in Containing(regions) : \A q \in Containing(regions) : q <= r

\* the attribute columns of a dataset
Attrs(regions) == Range(regions.columns) \ {GeometryCol}

\* the keys a dataset contributes for the geocoded point
KeysOf(item) ==
    IF Containing(item.regions) = {} THEN {}
    ELSE {ColumnName(Prefix(item.file_path), c) : c \in Attrs(item.regions)}

----------------------------------------------------------------------------
(* Properties *)

\* C1: after process_addresses, a row's in_region flag is true if and only if
\* the mapping check_address_in_region returned for that row was non-empty,
\* whatever the dataset paths and attribute names.
C1_FlagIffMappingNonEmpty ==
    Finished =>
        \A i \in 1..Len(result_df.rows) :
            (result_df.rows[i][InRegionCol] = True)
                <=> (DOMAIN region_log[i].data # {})

\* C2: two distinct dataset paths under shape_files never derive the same
\* namespace prefix.
C2_PrefixesDistinct ==
    \A j, k \in 1..Len(regions_list) :
        regions_list[j].file_path # regions_list[k].file_path
            => Prefix(regions_list[j].file_path) # Prefix(regions_list[k].file_path)

\* C3: with two datasets of different prefixes that each contain the point, the
\* returned mapping holds, for every attribute of each dataset's matching
\* region, the key prefix_attribute with that region's own value.
C3_CrossDatasetUnion ==
    \A i \in Completed :
        geo_log[i].outcome = "found" =>
            \A j, k \in 1..Len(regions_list) :
                LET item == regions_list[j]
                    other == regions_list[k]
                    prefix == Prefix(item.file_path)
                IN (/\ prefix # Prefix(other.file_path)
                    /\ Containing(item.regions) # {}
                    /\ Containing(other.regions) # {})
                   => \A c \in Attrs(item.regions) :
                        /\ ColumnName(prefix, c) \in DOMAIN region_log[i].data
                        /\ region_log[i].data[ColumnName(prefix, c)]
                             = item.regions.rows[LastContaining(item.regions)][c]

C5_ZeroDatasetsFatal ==
    (Processing /\ regions_list = <<>>) =>
        /\ geo_log = <<>>
        /\ result_df = NoTable

\* the state part of C6: the records are handled one by one in input order,
\* and a record the resolver does not find, or raises for, keeps in_region = false
C6_RowsInOrderFailuresUnmatched ==
    Processing =>
        /\ Len(geo_log) = idx
        /\ idx <= uploaded_csv.n
        /\ Len(df.rows) = uploaded_csv.n
        /\ \A i \in 1..idx :
              /\ geo_log[i].address = CsvValue(i, AddressCol)
              /\ geo_log[i].outcome \in {"not_found", "error"}
                    => df.rows[i][InRegionCol] = False
        /\ Finished =>
              /\ idx = uploaded_csv.n
              /\ \A i \in 1..idx :
                    geo_log[i].outcome \in {"not_found", "error"}
                        => result_df.rows[i][InRegionCol] = False

\* the step part of C6: a step taken inside the loop either handles exactly
\* the next record and stays in the loop, or leaves the loop with every record
\* handled
C6_LoopStep ==
    pc = "loop" =>
        \/ /\ pc' = "loop"
           /\ idx < uploaded_csv.n
           /\ idx' = idx + 1
           /\ Len(geo_log') = Len(geo_log) + 1
        \/ /\ pc' = "returned"
           /\ idx = uploaded_csv.n
           /\ idx' = idx
           /\ geo_log' = geo_log

\* C6: a record whose address the resolver does not find, or for which it
\* raises, ends with in_region = false and the loop goes on; under any pattern
\* of resolver outcomes every step of the loop handles the next record until
\* none is left, and the batch returns having handled every input record
\* exactly once, in input order.
C6_FailuresAreUnmatchedAndLoopCompletes ==
    /\ []C6_RowsInOrderFailuresUnmatched
    /\ [][C6_LoopStep]_vars

\* the batch has returned, the resolver raised for a record and a later record
\* was matched
C6_Witness ==
    /\ Finished
    /\ \E i, k \in 1..Len(geo_log) :
          /\ i < k
          /\ geo_log[i].outcome = "error"
          /\ result_df.rows[i][InRegionCol] = False
          /\ geo_log[k].outcome = "found"
          /\ result_df.rows[k][InRegionCol] = True

\* C7: every caller-supplied column of the input is present in the output with
\* the same value in every row, whatever the columns are called.
C7_InputColumnsPreserved ==
    Finished =>
        \A c \in Range(uploaded_csv.header) :
            /\ c \in Range(result_df.columns)
            /\ \A i \in 1..uploaded_csv.n :
                  /\ i <= Len(result_df.rows)
                  /\ result_df.rows[i][c] = CsvValue(i, c)

\* C8: the output holds the input's records in the input's order for every
\* input size; for an empty input the loop body never runs, the output is
\* empty and total, found and not found are all zero.
C8_OrderPreserved ==
    /\ Finished =>
          /\ Len(result_df.rows) = uploaded_csv.n
          /\ \A i \in 1..Len(result_df.rows) :
                /\ result_df.rows[i][AddressCol] = CsvValue(i, AddressCol)
                /\ result_df.rows[i][NoteCol] = CsvValue(i, NoteCol)
          /\ uploaded_csv.n = 0 => (geo_log = <<>> /\ result_df.rows = <<>>)
    /\ (pc = "done" /\ uploaded_csv.n = 0) =>
          metrics = [total |-> 0, found |-> 0, not_found |-> 0]

\* an empty table has gone through the batch and the summary shows zeros
C8_Witness ==
    /\ pc = "done"
    /\ uploaded_csv.n = 0
    /\ regions_list # <<>>
    /\ result_df.rows = <<>>
    /\ metrics.total = 0

\* C9: the columns are fixed before the loop and the same for every row; every
\* key check_address_in_region returns is a pre-created region column; after
\* the batch a region column holds the row's own mapping value where the key
\* is present and null otherwise.
C9_ColumnsFixedAndNullFilled ==
    Processing =>
        /\ Range(df.columns) = Range(uploaded_csv.header)
                                 \cup AllColumns(regions_list, 1) \cup {InRegionCol}
        /\ \A i \in Completed :
              DOMAIN region_log[i].data \subseteq AllColumns(regions_list, 1)
        /\ Finished =>
              \A i \in 1..Len(result_df.rows) : \A c \in AllColumns(regions_list, 1) :
                  result_df.rows[i][c] =
                      IF c \in DOMAIN region_log[i].data
                      THEN region_log[i].data[c] ELSE Null

\* C10: for a resolved point the result is None exactly when no region of any
\* dataset contains the point, whatever attribute columns the datasets have.
C10_NoneIffNoRegionContains ==
    \A i \in Completed :
        geo_log[i].outcome = "found" =>
            (region_log[i].none
                <=> \A j \in 1..Len(regions_list) :
                        Containing(regions_list[j].regions) = {})

====
